---- MODULE Spec2Model ----
(***************************************************************************)
(* Green-Guardian: region index (OneMapClient), per-region aggregation     *)
(* (TemperatureAggregator), theme counting (ContextEnricher), fusion       *)
(* (DataFusion) and the tiered rule engine (EnhancedTriggerRules).         *)
(*                                                                         *)
(* Encoding of values                                                      *)
(*   temperatures are in tenths of a degree   (29.5 -> 295)                *)
(*   green ratios are in hundredths           (0.15 -> 15)                 *)
(*   a numeric cell of a DataFrame is <<n>>, the missing value (NaN, pd.NA,*)
(*   None) is <<>>; a missing string cell is the string "NaN"              *)
(*   a DataFrame is [columns |-> set of column names, rows |-> sequence]   *)
(*   a geometry is the set of grid cells it contains                       *)
(***************************************************************************)
EXTENDS Integers, Sequences, FiniteSets, TLC

VARIABLES
    planning_areas,  \* OneMapClient.planning_areas, per client instance
    fetches,         \* number of requests.get calls made by each client
    loads,           \* number of times each client assigned its cache (line 63)
    temp_df,         \* DataFusion: frame returned by get_aggregated_data
    context_df,      \* DataFusion: frame returned by get_context_features
    df,              \* EnhancedTriggerRules.df, the fused table
    pc,              \* position of DataFusion.get_unified_dataset
    call,            \* the last call made: <<method, argument>>, for a client
                     \* call <<method, argument, requests it sent>>
    finding,         \* return value of the last evaluate_area
    results,         \* return value of the last evaluate_all
    triggered_areas, \* return value of the last get_triggered_areas
    area,            \* return value of the last get_planning_area
    counts,          \* return value of the last direct _fetch_and_map call
    callers,         \* concurrent requests on the shared client: their positions
    build,           \* how the installed numpy orders equal keys in quicksort
    raised           \* exception raised by the last call, or "none"

vars == <<planning_areas, fetches, loads, temp_df, context_df, df, pc,
          call, finding, results, triggered_areas, area, counts, callers, build,
          raised>>

indexVars  == <<planning_areas, fetches, loads, area>>
fusionVars == <<temp_df, context_df, pc>>
engineVars == <<finding, results, triggered_areas>>
stepVars   == <<counts, callers, build>>

---------------------------------------------------------------------------
(* Values *)

NaN == <<>>
Num(n) == <<n>>
notna(x) == x # NaN
NaNStr == "NaN"

\* comparisons of a cell with a number; every comparison with NaN is False
Ge(x, n) == notna(x) /\ x[1] >= n
Lt(x, n) == notna(x) /\ x[1] < n

EmptyFrame == [columns |-> {}, rows |-> <<>>]
Frame(cols, rows) == [columns |-> cols, rows |-> rows]
IsEmpty(frame) == frame.rows = <<>> \/ frame.columns = {}

FusedColumns == {"planning_area", "avg_temperature", "green_ratio", "density_type"}

Range(s) == {s[i] : i \in 1..Len(s)}

RECURSIVE SeqsUpTo(_, _)
SeqsUpTo(S, n) ==
    IF n = 0 THEN {<<>>}
    ELSE LET shorter == SeqsUpTo(S, n - 1)
         IN  shorter \cup {Append(s, x) : s \in {t \in shorter : Len(t) = n - 1}, x \in S}

---------------------------------------------------------------------------
(* OneMapClient *)

Clients == {"dashboard", "agg", "ctx"}

NoKey == "(no pln_area_n)"
NoArea == "None"

\* one element of the endpoint's answer: valid = shape(geojson) succeeds;
\* object = the element is a JSON object (a dict, so that item.get exists)
PolygonItem(name, valid, cells) ==
    [pln_area_n |-> name, valid |-> valid, cells |-> cells, object |-> TRUE]

\* A and B overlap on cell 2; cell 4 lies outside every polygon
Cells == 1..4
ItemA == PolygonItem("A", TRUE, {1, 2})
ItemB == PolygonItem("B", TRUE, {2, 3})
ItemU == PolygonItem(NoKey, TRUE, {3})
ItemBad == PolygonItem("B", FALSE, {})
PolygonItems == {ItemA, ItemB, ItemU, ItemBad}

\* an element that is not an object (null, a string, a number)
ItemNull == [pln_area_n |-> NoKey, valid |-> FALSE, cells |-> {}, object |-> FALSE]

MaxPolygons == 2
MaxFetches == 3

HttpError == [status |-> "error", data |-> <<>>]
Answer(data) == [status |-> "ok", data |-> data]
Answers ==
    {HttpError}
    \cup {Answer(d) : d \in SeqsUpTo(PolygonItems, MaxPolygons)}
    \cup {Answer(<<ItemNull>>), Answer(<<ItemA, ItemNull>>)}

\* the body of the for loop of load_planning_areas: an item that fails to
\* parse is logged and skipped; a missing name defaults to "UNKNOWN"
RECURSIVE ParseAreas(_)
ParseAreas(data) ==
    IF data = <<>> THEN <<>>
    ELSE LET item == Head(data)
             parsed == [name |-> IF item.pln_area_n = NoKey THEN "UNKNOWN"
                                 ELSE item.pln_area_n,
                        geometry |-> item.cells]
         IN  (IF item.valid THEN <<parsed>> ELSE <<>>) \o ParseAreas(Tail(data))

\* the except handler of the loop calls item.get again (line 61): on an
\* element without .get the AttributeError leaves the loop and the method
HandlerRaises(data) == \E i \in 1..Len(data) : ~data[i].object

\* what a fetch does to the cache: a failed request is re-raised, an element
\* that is not an object aborts the loop; both leave the cache as it was
Fetch(cache, answer) ==
    IF answer.status = "error"
    THEN [areas |-> cache, fetched |-> 1, loaded |-> 0, raised |-> "RequestException"]
    ELSE IF HandlerRaises(answer.data)
    THEN [areas |-> cache, fetched |-> 1, loaded |-> 0, raised |-> "AttributeError"]
    ELSE [areas |-> ParseAreas(answer.data), fetched |-> 1, loaded |-> 1,
          raised |-> "none"]

load_planning_areas_AlwaysFetch(cache, answer) == Fetch(cache, answer)

\* load_planning_areas: returns at once when the cache is truthy, else fetches
load_planning_areas(cache, answer) ==
    IF cache # <<>>
    THEN [areas |-> cache, fetched |-> 0, loaded |-> 0, raised |-> "none"]
    ELSE Fetch(cache, answer)

RECURSIVE FirstContaining_LastWins(_, _)
FirstContaining_LastWins(areas, cell) ==
    IF areas = <<>> THEN NoArea
    ELSE IF cell \in areas[Len(areas)].geometry THEN areas[Len(areas)].name
    ELSE FirstContaining_LastWins(SubSeq(areas, 1, Len(areas) - 1), cell)

\* the for loop of get_planning_area
RECURSIVE FirstContaining(_, _)
FirstContaining(areas, cell) ==
    IF areas = <<>> THEN NoArea
    ELSE IF cell \in Head(areas).geometry THEN Head(areas).name
    ELSE FirstContaining(Tail(areas), cell)

\* get_planning_area: loads when the cache is falsy, then scans
get_planning_area(cache, answer, cell) ==
    LET loaded == IF cache = <<>> THEN load_planning_areas(cache, answer)
                  ELSE [areas |-> cache, fetched |-> 0, loaded |-> 0, raised |-> "none"]
    IN  [areas |-> loaded.areas, fetched |-> loaded.fetched, loaded |-> loaded.loaded,
         raised |-> loaded.raised,
         area |-> IF loaded.raised = "none" THEN FirstContaining(loaded.areas, cell)
                  ELSE NoArea]

---------------------------------------------------------------------------
(* TemperatureAggregator *)

\* the region names in the order groupby and merge sort them (ASCII)
NameOrder == <<"A", "B", "UNKNOWN">>

\* round() to the nearest unit, halves to even, of num / den
RoundHalfEven(num, den) ==
    LET q == num \div den
        r == num % den
    IN  IF 2 * r < den THEN q
        ELSE IF 2 * r > den THEN q + 1
        ELSE IF q % 2 = 0 THEN q ELSE q + 1

RECURSIVE Sum(_)
Sum(values) == IF values = <<>> THEN 0 ELSE Head(values) + Sum(Tail(values))

Max(S) == CHOOSE x \in S : \A y \in S : y <= x

\* the permutations of a sequence of rows
Orderings(rows) ==
    {[i \in 1..Len(rows) |-> rows[p[i]]] : p \in Permutations(1..Len(rows))}

AggColumns == {"planning_area", "avg_temp", "max_temp", "station_count", "stations"}

\* the loop over the points: the points that resolve to an area, in input order
RECURSIVE MapStations(_, _)
MapStations(points, areas) ==
    IF points = <<>> THEN <<>>
    ELSE LET p == Head(points)
             name == FirstContaining(areas, p.cell)
         IN  (IF name # NoArea
              THEN <<[planning_area |-> name, temperature |-> p.value,
                      station_name |-> p.name]>>
              ELSE <<>>) \o MapStations(Tail(points), areas)

\* s.get('name') of a station without a name; p.get('name', ...) finds the
\* key and returns it
NoName == "None"

\* groupby('planning_area').agg(mean, max, count, list), avg_temp rounded to
\* one decimal; the groups come out in key order; count leaves out the
\* missing station names
RECURSIVE GroupByArea(_, _)
GroupByArea(mapped, k) ==
    IF k > Len(NameOrder) THEN <<>>
    ELSE LET group == SelectSeq(mapped, LAMBDA m : m.planning_area = NameOrder[k])
             temps == [i \in 1..Len(group) |-> group[i].temperature]
         IN  (IF group = <<>> THEN <<>>
              ELSE <<[planning_area |-> NameOrder[k],
                      avg_temp |-> Num(RoundHalfEven(Sum(temps), Len(temps))),
                      max_temp |-> Max(Range(temps)),
                      station_count |->
                          Len(SelectSeq(group, LAMBDA m : m.station_name # NoName)),
                      stations |-> [i \in 1..Len(group) |-> group[i].station_name]]>>)
             \o GroupByArea(mapped, k + 1)

\* sort_values(by='max_temp', ascending=False) with the default quicksort:
\* any ordering with non-increasing max_temp
SortedByMaxTemp(rows) ==
    {o \in Orderings(rows) :
        \A i \in 1..(Len(o) - 1) : o[i].max_temp >= o[i + 1].max_temp}

\* get_aggregated_data up to the final sort, on an aggregator whose client
\* holds cache: no points returns the empty frame before any load; the load
\* may raise; a client whose cache stays empty asks the endpoint again for
\* every point
get_aggregated_data_on(cache, points, answer) ==
    IF points = <<>>
    THEN [rows |-> <<>>, columns |-> {}, areas |-> cache, fetched |-> 0, loaded |-> 0,
          raised |-> "none"]
    ELSE LET loaded == load_planning_areas(cache, answer)
             mapped == MapStations(points, loaded.areas)
         IN  IF loaded.raised # "none"
             THEN [rows |-> <<>>, columns |-> {}, areas |-> cache,
                   fetched |-> loaded.fetched, loaded |-> 0, raised |-> loaded.raised]
             ELSE [rows |-> GroupByArea(mapped, 1),
                   columns |-> IF mapped = <<>> THEN {} ELSE AggColumns,
                   areas |-> loaded.areas,
                   fetched |-> loaded.fetched
                                 + (IF loaded.areas = <<>> THEN Len(points) ELSE 0),
                   loaded |-> loaded.loaded
                                 + (IF loaded.areas = <<>> THEN Len(points) ELSE 0),
                   raised |-> "none"]

\* on the fresh aggregator of a run
get_aggregated_data(points, answer) == get_aggregated_data_on(<<>>, points, answer)

---------------------------------------------------------------------------
(* ContextEnricher *)

ContextColumns == {"planning_area", "green_ratio", "density_type",
                   "green_count", "comm_count", "res_count"}

\* item.get('LatLng', ''): how the string parses, and the cell it names
LatLng(kind, cell) == [kind |-> kind, cell |-> cell]

\* the items of _fetch_and_map that come before the first one whose
\* split(',') does not unpack into two parts
RECURSIVE UntilUnpackError(_)
UntilUnpackError(items) ==
    IF items = <<>> \/ Head(items).kind = "toomany" THEN <<>>
    ELSE <<Head(items)>> \o UntilUnpackError(Tail(items))

\* _fetch_and_map: items without a usable LatLng are skipped, the others are
\* resolved and counted per area; unpacking more than two parts raises
_fetch_and_map(items, areas) ==
    LET done == UntilUnpackError(items)
        parsed == SelectSeq(done, LAMBDA it : it.kind = "ok")
        names == [i \in 1..Len(parsed) |-> FirstContaining(areas, parsed[i].cell)]
    IN  [counts |-> [n \in Range(NameOrder) |->
                        Len(SelectSeq(names, LAMBDA x : x = n))],
         resolved |-> Len(parsed),
         raised |-> IF Len(done) < Len(items) THEN "ValueError" ELSE "none"]

determine_density_InclusiveBoundary(c, r) ==
    LET total == c + r
    IN  IF total = 0 THEN "Unknown/Low Density"
        ELSE IF 10 * c >= 6 * total THEN "Commercial"
        ELSE IF 10 * c <= 4 * total THEN "Residential"
        ELSE "Mixed"

\* determine_density: comm_ratio = c / total against 0.6 and 0.4
determine_density(c, r) ==
    LET total == c + r
    IN  IF total = 0 THEN "Unknown/Low Density"
        ELSE IF 10 * c > 6 * total THEN "Commercial"
        ELSE IF 10 * c < 4 * total THEN "Residential"
        ELSE "Mixed"

green_ratio_Truncated(count, max_green) ==
    IF max_green > 0 THEN (100 * count) \div max_green ELSE 0

\* (green_count / max_green).round(2) if max_green > 0 else 0
green_ratio(count, max_green) ==
    IF max_green > 0 THEN RoundHalfEven(100 * count, max_green) ELSE 0

\* the frame built by get_context_features: one row per cached polygon
\* (all_areas = [a['name'] for a in planning_areas]), counts mapped by name;
\* without polygons it has the columns and no row (pandas 2: apply on an
\* empty frame reduces to an empty Series)
ContextRows(areas, green, comm, res) ==
    LET max_green == IF areas = <<>> THEN 0
                     ELSE Max({green[areas[i].name] : i \in 1..Len(areas)})
    IN  [i \in 1..Len(areas) |->
            [planning_area |-> areas[i].name,
             green_ratio |-> Num(green_ratio(green[areas[i].name], max_green)),
             density_type |-> determine_density(comm[areas[i].name], res[areas[i].name]),
             green_count |-> green[areas[i].name],
             comm_count |-> comm[areas[i].name],
             res_count |-> res[areas[i].name]]]

\* get_context_features on an enricher whose client holds cache: the load may
\* raise; the three _fetch_and_map passes run in the order green, commercial,
\* residential and the first one that raises ends the call
get_context_features_on(cache, themes, answer) ==
    LET loaded == load_planning_areas(cache, answer)
        green == _fetch_and_map(themes.green, loaded.areas)
        comm == _fetch_and_map(themes.commercial, loaded.areas)
        res == _fetch_and_map(themes.residential, loaded.areas)
        failed == IF loaded.raised # "none" THEN loaded.raised
                  ELSE IF green.raised # "none" THEN green.raised
                  ELSE IF comm.raised # "none" THEN comm.raised
                  ELSE res.raised
        resolved == green.resolved
                    + (IF green.raised = "none" THEN comm.resolved ELSE 0)
                    + (IF green.raised = "none" /\ comm.raised = "none"
                       THEN res.resolved ELSE 0)
    IN  [rows |-> IF failed = "none"
                  THEN ContextRows(loaded.areas, green.counts, comm.counts, res.counts)
                  ELSE <<>>,
         columns |-> IF failed = "none" THEN ContextColumns ELSE {},
         areas |-> loaded.areas,
         fetched |-> loaded.fetched
                       + (IF loaded.raised = "none" /\ loaded.areas = <<>>
                          THEN resolved ELSE 0),
         loaded |-> loaded.loaded
                       + (IF loaded.raised = "none" /\ loaded.areas = <<>>
                          THEN resolved ELSE 0),
         raised |-> failed]

\* on the fresh enricher of a run
get_context_features(themes, answer) == get_context_features_on(<<>>, themes, answer)

---------------------------------------------------------------------------
(* DataFusion *)

FusedRow(name, temp, green, density) ==
    [planning_area |-> name, avg_temperature |-> temp,
     green_ratio |-> green, density_type |-> density]

MergeKey_ZeroFill(name, left, right) ==
    IF left # <<>> /\ right # <<>>
    THEN [i \in 1..(Len(left) * Len(right)) |->
             LET l == left[((i - 1) \div Len(right)) + 1]
                 r == right[((i - 1) % Len(right)) + 1]
             IN  FusedRow(name, l.avg_temp, r.green_ratio, r.density_type)]
    ELSE IF left # <<>>
    THEN [i \in 1..Len(left) |-> FusedRow(name, left[i].avg_temp, NaN, NaNStr)]
    ELSE [i \in 1..Len(right) |->
             FusedRow(name, Num(0), right[i].green_ratio, right[i].density_type)]

\* the rows of one key of pd.merge(how='outer'): every pairing of a left row
\* with a right row, or the row of the only side that has the key
MergeKey(name, left, right) ==
    IF left # <<>> /\ right # <<>>
    THEN [i \in 1..(Len(left) * Len(right)) |->
             LET l == left[((i - 1) \div Len(right)) + 1]
                 r == right[((i - 1) % Len(right)) + 1]
             IN  FusedRow(name, l.avg_temp, r.green_ratio, r.density_type)]
    ELSE IF left # <<>>
    THEN [i \in 1..Len(left) |-> FusedRow(name, left[i].avg_temp, NaN, NaNStr)]
    ELSE [i \in 1..Len(right) |->
             FusedRow(name, NaN, right[i].green_ratio, right[i].density_type)]

\* pd.merge(temp_df, context_df, on='planning_area', how='outer'): the union
\* of the keys, in key order
RECURSIVE merge(_, _, _)
merge(left, right, k) ==
    IF k > Len(NameOrder) THEN <<>>
    ELSE MergeKey(NameOrder[k],
                  SelectSeq(left, LAMBDA x : x.planning_area = NameOrder[k]),
                  SelectSeq(right, LAMBDA x : x.planning_area = NameOrder[k]))
         \o merge(left, right, k + 1)

\* the frame before the final sort: nothing without context data; the context
\* rows with avg_temperature = pd.NA without temperature data; else the merge
Unified(temp, context) ==
    IF IsEmpty(context) THEN EmptyFrame
    ELSE IF IsEmpty(temp)
    THEN Frame(FusedColumns,
               [i \in 1..Len(context.rows) |->
                   FusedRow(context.rows[i].planning_area, NaN,
                            context.rows[i].green_ratio, context.rows[i].density_type)])
    ELSE Frame(FusedColumns, merge(temp.rows, context.rows, 1))

\* sort_values(by='avg_temperature', ascending=False, na_position='last') with
\* the default quicksort: the present values in any non-increasing ordering,
\* then the missing ones in the order they had
SortedByTemperature(rows) ==
    LET present == SelectSeq(rows, LAMBDA r : notna(r.avg_temperature))
        missing == SelectSeq(rows, LAMBDA r : ~notna(r.avg_temperature))
    IN  {o \o missing : o \in
            {p \in Orderings(present) :
                \A i \in 1..(Len(p) - 1) :
                    p[i].avg_temperature[1] >= p[i + 1].avg_temperature[1]}}

---------------------------------------------------------------------------
(* EnhancedTriggerRules *)

TEMP_HIGH == 295
TEMP_CRITICAL == 305
GREEN_LOW == 20
GREEN_CRITICAL == 10

NoFinding == [trigger |-> FALSE, priority |-> "-", planning_area |-> "-",
              avg_temperature |-> NaN, green_ratio |-> NaN,
              density_type |-> "-", data_source |-> "-"]

\* the dict returned for a name that is not in the table ('details': {})
NotFoundFinding == [NoFinding EXCEPT !.priority = "N/A"]

MeasuredPriority_InclusiveLost(temp, green, density) ==
    IF Ge(temp, TEMP_CRITICAL) /\ Lt(green, GREEN_CRITICAL) /\ density = "Commercial"
        THEN "CRITICAL"
    ELSE IF Ge(temp, TEMP_HIGH + 1) /\ Lt(green, GREEN_LOW) THEN "HIGH"
    ELSE IF Ge(temp, TEMP_CRITICAL) THEN "HIGH"
    ELSE IF Ge(temp, TEMP_HIGH) /\ density = "Commercial" /\ Lt(green, GREEN_CRITICAL)
        THEN "MEDIUM"
    ELSE IF Ge(temp, TEMP_HIGH) /\ density = "Residential" /\ Lt(green, GREEN_LOW)
        THEN "MEDIUM"
    ELSE "NORMAL"

MeasuredPriority_MediumFirst(temp, green, density) ==
    IF Ge(temp, TEMP_CRITICAL) /\ Lt(green, GREEN_CRITICAL) /\ density = "Commercial"
        THEN "CRITICAL"
    ELSE IF Ge(temp, TEMP_HIGH) /\ density = "Commercial" /\ Lt(green, GREEN_CRITICAL)
        THEN "MEDIUM"
    ELSE IF Ge(temp, TEMP_HIGH) /\ density = "Residential" /\ Lt(green, GREEN_LOW)
        THEN "MEDIUM"
    ELSE IF Ge(temp, TEMP_HIGH) /\ Lt(green, GREEN_LOW) THEN "HIGH"
    ELSE IF Ge(temp, TEMP_CRITICAL) THEN "HIGH"
    ELSE "NORMAL"

MeasuredPriority_HeatCapped(temp, green, density) ==
    IF Ge(temp, TEMP_CRITICAL) /\ Lt(green, GREEN_CRITICAL) /\ density = "Commercial"
        THEN "CRITICAL"
    ELSE IF Ge(temp, TEMP_HIGH) /\ ~Ge(temp, TEMP_CRITICAL) /\ Lt(green, GREEN_LOW)
        THEN "HIGH"
    ELSE "NORMAL"

\* the if/elif chain of _evaluate_with_temperature
MeasuredPriority(temp, green, density) ==
    IF Ge(temp, TEMP_CRITICAL) /\ Lt(green, GREEN_CRITICAL) /\ density = "Commercial"
        THEN "CRITICAL"
    ELSE IF Ge(temp, TEMP_HIGH) /\ Lt(green, GREEN_LOW) THEN "HIGH"
    ELSE IF Ge(temp, TEMP_CRITICAL) THEN "HIGH"
    ELSE IF Ge(temp, TEMP_HIGH) /\ density = "Commercial" /\ Lt(green, GREEN_CRITICAL)
        THEN "MEDIUM"
    ELSE IF Ge(temp, TEMP_HIGH) /\ density = "Residential" /\ Lt(green, GREEN_LOW)
        THEN "MEDIUM"
    ELSE "NORMAL"

\* trigger = len(triggers) > 0: a trigger text is appended in every branch
\* that sets a priority
_evaluate_with_temperature(name, temp, green, density) ==
    LET priority == MeasuredPriority(temp, green, density)
    IN  [trigger |-> priority # "NORMAL", priority |-> priority,
         planning_area |-> name, avg_temperature |-> temp,
         green_ratio |-> green, density_type |-> density,
         data_source |-> "temperature"]

InferredPriority_ResidentialFirst(green, density) ==
    IF density = "Commercial" /\ Lt(green, GREEN_CRITICAL) THEN "MEDIUM"
    ELSE IF density = "Residential" /\ Lt(green, GREEN_LOW) THEN "LOW"
    ELSE IF Lt(green, GREEN_CRITICAL) THEN "MEDIUM"
    ELSE "NORMAL"

\* the if/elif chain of _infer_from_context
InferredPriority(green, density) ==
    IF density = "Commercial" /\ Lt(green, GREEN_CRITICAL) THEN "MEDIUM"
    ELSE IF Lt(green, GREEN_CRITICAL) THEN "MEDIUM"
    ELSE IF density = "Residential" /\ Lt(green, GREEN_LOW) THEN "LOW"
    ELSE "NORMAL"

_infer_from_context_LowUntriggered(name, green, density) ==
    LET priority == InferredPriority(green, density)
    IN  [trigger |-> priority = "MEDIUM", priority |-> priority,
         planning_area |-> name, avg_temperature |-> NaN,
         green_ratio |-> green, density_type |-> density,
         data_source |-> "context_inference"]

\* trigger = True in every branch that sets a priority
_infer_from_context(name, green, density) ==
    LET priority == InferredPriority(green, density)
    IN  [trigger |-> priority # "NORMAL", priority |-> priority,
         planning_area |-> name, avg_temperature |-> NaN,
         green_ratio |-> green, density_type |-> density,
         data_source |-> "context_inference"]

\* self.df[self.df['planning_area'] == planning_area]
RowsNamed(frame, name) == SelectSeq(frame.rows, LAMBDA r : r.planning_area = name)

\* self.df['planning_area'] raises KeyError on a frame without that column
LookupRaises(frame) == "planning_area" \notin frame.columns

\* evaluate_area on a frame that has the column
evaluate_area(frame, name) ==
    LET area_data == RowsNamed(frame, name)
    IN  IF area_data = <<>> THEN NotFoundFinding
        ELSE LET row == area_data[1]
             IN  IF notna(row.avg_temperature)
                 THEN _evaluate_with_temperature(name, row.avg_temperature,
                                                 row.green_ratio, row.density_type)
                 ELSE _infer_from_context(name, row.green_ratio, row.density_type)

\* priority_order.get(x['priority'], 5)
priority_order(priority) ==
    CASE priority = "CRITICAL" -> 0
      [] priority = "HIGH" -> 1
      [] priority = "MEDIUM" -> 2
      [] priority = "LOW" -> 3
      [] priority = "NORMAL" -> 4
      [] OTHER -> 5

\* list.sort(key=...) is stable: an element goes after every element whose
\* key is not larger
RECURSIVE InsertByRank(_, _)
InsertByRank(sorted, x) ==
    IF sorted = <<>> THEN <<x>>
    ELSE IF priority_order(x.priority) < priority_order(Head(sorted).priority)
         THEN <<x>> \o sorted
         ELSE <<Head(sorted)>> \o InsertByRank(Tail(sorted), x)

RECURSIVE SortByRank_Unstable(_)
SortByRank_Unstable(list) ==
    IF list = <<>> THEN <<>>
    ELSE InsertByRank(SortByRank_Unstable(Tail(list)), Head(list))

RECURSIVE SortByRank(_)
SortByRank(list) ==
    IF list = <<>> THEN <<>>
    ELSE InsertByRank(SortByRank(SubSeq(list, 1, Len(list) - 1)), list[Len(list)])

\* the loop of evaluate_all: one evaluate_area call per row, by name
Evaluations(frame) ==
    [i \in 1..Len(frame.rows) |-> evaluate_area(frame, frame.rows[i].planning_area)]

evaluate_all(frame) == SortByRank(Evaluations(frame))

TriggeredColumns == {"planning_area", "priority", "temperature", "green_ratio",
                     "density_type", "data_source"}

\* the dict get_triggered_areas builds from one result
TriggeredRecord(r) ==
    [planning_area |-> r.planning_area, priority |-> r.priority,
     temperature |-> r.avg_temperature, green_ratio |-> r.green_ratio,
     density_type |-> r.density_type, data_source |-> r.data_source]

get_triggered_areas_KeepsAll(frame) ==
    LET triggered == evaluate_all(frame)
    IN  IF triggered = <<>> THEN EmptyFrame
        ELSE Frame(TriggeredColumns,
                   [i \in 1..Len(triggered) |-> TriggeredRecord(triggered[i])])

\* get_triggered_areas: [r for r in results if r['trigger']], pd.DataFrame()
\* when none is left
get_triggered_areas(frame) ==
    LET triggered == SelectSeq(evaluate_all(frame), LAMBDA r : r.trigger)
    IN  IF triggered = <<>> THEN EmptyFrame
        ELSE Frame(TriggeredColumns,
                   [i \in 1..Len(triggered) |-> TriggeredRecord(triggered[i])])

---------------------------------------------------------------------------
(* Inputs of the rule engine: the dataset handed to the constructor *)

MaxRows == 3

RegionNames == {"A", "B", "C"}
Densities == {"Commercial", "Residential", "Mixed", "Unknown/Low Density"}
Temperatures == {NaN} \cup {Num(t) : t \in {0, 280, 294, 295, 304, 305, 310}}
GreenRatios == {Num(g) : g \in {0, 5, 9, 10, 15, 19, 20, 50}}

AllRows ==
    {FusedRow(n, t, g, d) : n \in RegionNames, t \in Temperatures,
                            g \in GreenRatios, d \in Densities}

\* one row per outcome of the two branches
SampleRows ==
    {FusedRow(n, v[1], v[2], v[3]) :
        n \in RegionNames,
        v \in {<<Num(310), Num(5), "Commercial">>,
               <<Num(295), Num(15), "Mixed">>,
               <<Num(280), Num(50), "Residential">>,
               <<NaN, Num(5), "Residential">>,
               <<NaN, Num(15), "Residential">>,
               <<NaN, Num(50), "Unknown/Low Density">>}}

Datasets ==
    {EmptyFrame}
    \cup {Frame(FusedColumns, <<r>>) : r \in AllRows}
    \cup {Frame(FusedColumns, s) : s \in SeqsUpTo(SampleRows, MaxRows)}

LookupNames == RegionNames \cup {"Z"}

---------------------------------------------------------------------------
(* Actions of the rule engine *)

EvaluateArea(name) ==
    /\ call' = <<"evaluate_area", name>>
    /\ IF LookupRaises(df)
       THEN /\ raised' = "KeyError"
            /\ finding' = NoFinding
       ELSE /\ raised' = "none"
            /\ finding' = evaluate_area(df, name)
    /\ results' = <<>>
    /\ triggered_areas' = EmptyFrame
    /\ UNCHANGED <<df, indexVars, fusionVars, stepVars>>

EvaluateAll ==
    /\ call' = <<"evaluate_all", "-">>
    /\ raised' = "none"
    /\ results' = evaluate_all(df)
    /\ finding' = NoFinding
    /\ triggered_areas' = EmptyFrame
    /\ UNCHANGED <<df, indexVars, fusionVars, stepVars>>

GetTriggeredAreas ==
    /\ call' = <<"get_triggered_areas", "-">>
    /\ raised' = "none"
    /\ triggered_areas' = get_triggered_areas(df)
    /\ results' = <<>>
    /\ finding' = NoFinding
    /\ UNCHANGED <<df, indexVars, fusionVars, stepVars>>

\* _fetch_and_map returns a dict of counts; a name without a key counts 0
NoCounts == [n \in Range(NameOrder) |-> 0]

\* requests served at the same time on the module-level client of dashboard.py
MaxCallers == 2
Callers == 1..MaxCallers
Arrived == [at |-> "arrived", parsed_areas |-> <<>>, loaded |-> FALSE]

InitIdle ==
    /\ planning_areas = [c \in Clients |-> <<>>]
    /\ fetches = [c \in Clients |-> 0]
    /\ loads = [c \in Clients |-> 0]
    /\ counts = NoCounts
    /\ callers = [c \in Callers |-> Arrived]
    /\ build = "ascending"
    /\ temp_df = EmptyFrame
    /\ context_df = EmptyFrame
    /\ pc = "idle"
    /\ call = <<"-", "-">>
    /\ finding = NoFinding
    /\ results = <<>>
    /\ triggered_areas = EmptyFrame
    /\ area = NoArea
    /\ raised = "none"

InitRules ==
    /\ InitIdle
    /\ df \in Datasets

NextRules ==
    \/ \E name \in LookupNames : EvaluateArea(name)
    \/ EvaluateAll
    \/ GetTriggeredAreas

SpecRules == InitRules /\ [][NextRules]_vars

\* tables of two measured records of one density type
PairTables ==
    {Frame(FusedColumns, <<FusedRow("A", t[1], g[1], d), FusedRow("B", t[2], g[2], d)>>) :
        t \in (Temperatures \ {NaN}) \X (Temperatures \ {NaN}),
        g \in GreenRatios \X GreenRatios,
        d \in Densities}

InitPairs ==
    /\ InitIdle
    /\ df \in PairTables

NextPairs == EvaluateAll

SpecPairs == InitPairs /\ [][NextPairs]_vars

---------------------------------------------------------------------------
(* Inputs and steps of DataFusion.get_unified_dataset *)

MaxPoints == 2
MaxItems == 2

\* what the endpoint may answer to the two clients of one run: a failure, no
\* polygon, A and B alone and together in both orders, and two polygons of
\* one name (A twice, and two items without a name, both "UNKNOWN")
FusionAnswers ==
    {HttpError, Answer(<<>>), Answer(<<ItemA>>), Answer(<<ItemB>>),
     Answer(<<ItemA, ItemB>>), Answer(<<ItemB, ItemA>>),
     Answer(<<ItemA, ItemA>>), Answer(<<ItemU, ItemU>>)}

\* weather stations in A only and in B only, the one in B without a name; a
\* reading of 0.0 is a valid temperature
StationCells == {1, 3}
StationNames == <<"S1", "S2", NoName, "S4">>
Readings == {0, 310}
WeatherPoints ==
    {[cell |-> c, value |-> v, name |-> StationNames[c]] : c \in StationCells, v \in Readings}
PointLists == SeqsUpTo(WeatherPoints, MaxPoints)

LatLngs == {LatLng("ok", 1), LatLng("ok", 3), LatLng("nocomma", 0), LatLng("toomany", 0)}
ThemeInputs ==
    [green : SeqsUpTo(LatLngs, MaxItems),
     commercial : SeqsUpTo({LatLng("ok", 1)}, 1),
     residential : SeqsUpTo({LatLng("ok", 1)}, 1)]

\* temp_agg = TemperatureAggregator(); temp_df = temp_agg.get_aggregated_data()
Aggregate(points, answer) ==
    LET r == get_aggregated_data(points, answer)
    IN  /\ pc = "idle"
        /\ call' = <<"get_aggregated_data", "-">>
        /\ planning_areas' = [planning_areas EXCEPT !["agg"] = r.areas]
        /\ fetches' = [fetches EXCEPT !["agg"] = @ + r.fetched]
        /\ loads' = [loads EXCEPT !["agg"] = @ + r.loaded]
        /\ raised' = r.raised
        /\ IF r.raised # "none"
           THEN pc' = "raised" /\ temp_df' = temp_df
           ELSE /\ pc' = "aggregated"
                /\ \E sorted \in SortedByMaxTemp(r.rows) :
                       temp_df' = Frame(r.columns, sorted)
        /\ UNCHANGED <<context_df, df, area, engineVars, stepVars>>

\* enricher = ContextEnricher(); context_df = enricher.get_context_features()
Profile(themes, answer) ==
    LET r == get_context_features(themes, answer)
    IN  /\ pc = "aggregated"
        /\ call' = <<"get_context_features", "-">>
        /\ planning_areas' = [planning_areas EXCEPT !["ctx"] = r.areas]
        /\ fetches' = [fetches EXCEPT !["ctx"] = @ + r.fetched]
        /\ loads' = [loads EXCEPT !["ctx"] = @ + r.loaded]
        /\ raised' = r.raised
        /\ IF r.raised # "none"
           THEN pc' = "raised" /\ context_df' = context_df
           ELSE pc' = "profiled" /\ context_df' = Frame(r.columns, r.rows)
        /\ UNCHANGED <<temp_df, df, area, engineVars, stepVars>>

\* the rest of get_unified_dataset; its result becomes EnhancedTriggerRules.df
Fuse ==
    LET unified == Unified(temp_df, context_df)
    IN  /\ pc = "profiled"
        /\ call' = <<"get_unified_dataset", "-">>
        /\ raised' = "none"
        /\ pc' = "done"
        /\ \E sorted \in SortedByTemperature(unified.rows) :
               df' = Frame(unified.columns, sorted)
        /\ UNCHANGED <<indexVars, temp_df, context_df, engineVars, stepVars>>

\* EnhancedTriggerRules() without a dataset evaluates the table of the run
EvaluateFused(name) ==
    /\ pc = "done"
    /\ EvaluateArea(name)

EvaluateAllFused ==
    /\ pc = "done"
    /\ EvaluateAll

InitFusion ==
    /\ InitIdle
    /\ df = EmptyFrame

NextFusion ==
    \/ \E points \in PointLists, answer \in FusionAnswers : Aggregate(points, answer)
    \/ \E themes \in ThemeInputs, answer \in FusionAnswers : Profile(themes, answer)
    \/ Fuse
    \/ \E name \in Range(NameOrder) : EvaluateFused(name)
    \/ EvaluateAllFused

SpecFusion == InitFusion /\ [][NextFusion]_vars

---------------------------------------------------------------------------
(* Two runs of the pipeline on the same inputs. quicksort is a fixed        *)
(* algorithm: which order it gives to equal keys depends on the installed   *)
(* numpy, not on the run, so the choice is made once, in Init               *)

Builds == {"ascending", "descending"}

RECURSIVE NameCode(_)
NameCode(rows) ==
    IF rows = <<>> THEN 0
    ELSE 10 * NameCode(SubSeq(rows, 1, Len(rows) - 1))
         + (CHOOSE k \in 1..Len(NameOrder) :
                NameOrder[k] = rows[Len(rows)].planning_area)

TieOrder_PerRun(orderings) ==
    CHOOSE o \in orderings : \A p \in orderings :
        IF (build = "ascending") = (pc = "idle")
        THEN NameCode(o) <= NameCode(p) ELSE NameCode(o) >= NameCode(p)

\* the one ordering among the admissible ones that the installed sort returns
TieOrder(orderings) ==
    CHOOSE o \in orderings : \A p \in orderings :
        IF build = "ascending"
        THEN NameCode(o) <= NameCode(p) ELSE NameCode(o) >= NameCode(p)

\* get_unified_dataset followed by evaluate_all, on stage objects whose
\* clients hold the given caches
Pipeline(agg_cache, ctx_cache, points, themes, answer) ==
    LET a == get_aggregated_data_on(agg_cache, points, answer)
        c == get_context_features_on(ctx_cache, themes, answer)
        temp == Frame(a.columns, TieOrder(SortedByMaxTemp(a.rows)))
        context == Frame(c.columns, c.rows)
        unified == Unified(temp, context)
        fused == Frame(unified.columns, TieOrder(SortedByTemperature(unified.rows)))
    IN  IF a.raised # "none"
        THEN [raised |-> a.raised, agg |-> a, ctx |-> [c EXCEPT !.fetched = 0, !.loaded = 0,
                                                         !.areas = ctx_cache],
              temp_df |-> EmptyFrame, context_df |-> EmptyFrame, df |-> EmptyFrame,
              results |-> <<>>]
        ELSE IF c.raised # "none"
        THEN [raised |-> c.raised, agg |-> a, ctx |-> c,
              temp_df |-> temp, context_df |-> EmptyFrame, df |-> EmptyFrame,
              results |-> <<>>]
        ELSE [raised |-> "none", agg |-> a, ctx |-> c,
              temp_df |-> temp, context_df |-> context, df |-> fused,
              results |-> evaluate_all(fused)]

RunThemes == {t \in ThemeInputs : Len(t.green) <= 1 /\ t.commercial = <<>>}

Ran(r) ==
    /\ raised' = r.raised
    /\ planning_areas' = [planning_areas EXCEPT !["agg"] = r.agg.areas,
                                                 !["ctx"] = r.ctx.areas]
    /\ fetches' = [fetches EXCEPT !["agg"] = @ + r.agg.fetched,
                                   !["ctx"] = @ + r.ctx.fetched]
    /\ loads' = [loads EXCEPT !["agg"] = @ + r.agg.loaded, !["ctx"] = @ + r.ctx.loaded]
    /\ temp_df' = r.temp_df
    /\ context_df' = r.context_df
    /\ df' = r.df
    /\ results' = r.results
    /\ UNCHANGED <<area, finding, triggered_areas, stepVars>>

\* rules = EnhancedTriggerRules(); rules.evaluate_all()
Run(points, themes, answer) ==
    /\ pc = "idle"
    /\ call' = <<"first run", [points |-> points, themes |-> themes, answer |-> answer]>>
    /\ LET r == Pipeline(<<>>, <<>>, points, themes, answer)
       IN  /\ pc' = IF r.raised = "none" THEN "ran" ELSE "raised"
           /\ Ran(r)

\* the same again on the same inputs: with new stage objects, as
\* get_unified_dataset builds them, or on the stage objects of the first run
RunAgain(reuse) ==
    /\ pc = "ran"
    /\ call' = <<IF reuse THEN "second run, same clients" ELSE "second run", call[2]>>
    /\ pc' = "reran"
    /\ Ran(Pipeline(IF reuse THEN planning_areas["agg"] ELSE <<>>,
                    IF reuse THEN planning_areas["ctx"] ELSE <<>>,
                    call[2].points, call[2].themes, call[2].answer))

InitRuns ==
    /\ planning_areas = [c \in Clients |-> <<>>]
    /\ fetches = [c \in Clients |-> 0]
    /\ loads = [c \in Clients |-> 0]
    /\ counts = NoCounts
    /\ callers = [c \in Callers |-> Arrived]
    /\ build \in Builds
    /\ temp_df = EmptyFrame
    /\ context_df = EmptyFrame
    /\ df = EmptyFrame
    /\ pc = "idle"
    /\ call = <<"-", "-">>
    /\ finding = NoFinding
    /\ results = <<>>
    /\ triggered_areas = EmptyFrame
    /\ area = NoArea
    /\ raised = "none"

NextRuns ==
    \/ \E points \in PointLists, themes \in RunThemes, answer \in FusionAnswers :
           Run(points, themes, answer)
    \/ \E reuse \in BOOLEAN : RunAgain(reuse)

SpecRuns == InitRuns /\ [][NextRuns]_vars

---------------------------------------------------------------------------
(* Claims about the rule engine, checked under SpecRules *)

\* the row evaluate_area reads for the name it was called with
LookedUp == RowsNamed(df, call[2])[1]
Evaluated ==
    /\ call[1] = "evaluate_area"
    /\ raised = "none"
    /\ RowsNamed(df, call[2]) # <<>>

FirstMatch(rules, otherwise) ==
    LET matching == {i \in 1..Len(rules) : rules[i][1]}
    IN  IF matching = {} THEN otherwise
        ELSE rules[CHOOSE i \in matching : \A j \in matching : i <= j][2]

C1_DecisionList(t, g, d) ==
    FirstMatch(<< <<t >= 305 /\ g < 10 /\ d = "Commercial", "CRITICAL">>,
                  <<t >= 295 /\ g < 20, "HIGH">>,
                  <<t >= 305, "HIGH">>,
                  <<t >= 295 /\ d = "Commercial" /\ g < 10, "MEDIUM">>,
                  <<t >= 295 /\ d = "Residential" /\ g < 20, "MEDIUM">> >>,
               "NORMAL")

\* C1: a record whose avg_temperature is present is evaluated by the
\* measurement branch: the finding has source measurement ('temperature') and
\* the priority of the first matching rule of the ordered list
\* CRITICAL / HIGH / HIGH / MEDIUM / MEDIUM, else NORMAL with trigger false;
\* temperature comparisons are inclusive (29.5 with green 0.15 is HIGH),
\* green comparisons strict.
C1_MeasurementBranch ==
    (Evaluated /\ notna(LookedUp.avg_temperature)) =>
        LET t == LookedUp.avg_temperature[1]
            g == LookedUp.green_ratio[1]
            d == LookedUp.density_type
            expected == C1_DecisionList(t, g, d)
        IN  /\ finding.data_source = "temperature"
            /\ finding.priority = expected
            /\ finding.trigger = (expected # "NORMAL")
            /\ (t = 295 /\ g = 15) => finding.priority = "HIGH"
            /\ (t >= 295 /\ g = 20 /\ t < 305) => finding.priority = "NORMAL"

C1_Witness ==
    /\ Evaluated
    /\ LookedUp.avg_temperature = Num(295)
    /\ LookedUp.green_ratio = Num(15)
    /\ LookedUp.density_type = "Mixed"
    /\ finding.priority = "HIGH"
    /\ finding.data_source = "temperature"

C2_DecisionList(g, d) ==
    FirstMatch(<< <<d = "Commercial" /\ g < 10, "MEDIUM">>,
                  <<g < 10, "MEDIUM">>,
                  <<d = "Residential" /\ g < 20, "LOW">> >>,
               "NORMAL")

\* C2: a record whose avg_temperature is absent is evaluated by the inference
\* branch: source inference ('context_inference') and the outcome of the
\* first matching rule of MEDIUM / MEDIUM / LOW, else NORMAL untriggered; a
\* Residential record with green 0.05 is MEDIUM, never LOW.
C2_InferenceBranch ==
    (Evaluated /\ ~notna(LookedUp.avg_temperature)) =>
        LET g == LookedUp.green_ratio[1]
            d == LookedUp.density_type
            expected == C2_DecisionList(g, d)
        IN  /\ finding.data_source = "context_inference"
            /\ finding.priority = expected
            /\ finding.trigger = (expected # "NORMAL")
            /\ (d = "Residential" /\ g = 5) => finding.priority = "MEDIUM"

C2_Witness ==
    /\ Evaluated
    /\ LookedUp.avg_temperature = NaN
    /\ LookedUp.green_ratio = Num(5)
    /\ LookedUp.density_type = "Residential"
    /\ finding.priority = "MEDIUM"
    /\ finding.trigger

C8_RankTable == <<"CRITICAL", "HIGH", "MEDIUM", "LOW", "NORMAL", "N/A">>
C8_Rank(f) == CHOOSE i \in 1..6 : C8_RankTable[i] = f.priority

RECURSIVE C8_ByRank(_, _)
C8_ByRank(list, r) ==
    IF r > 6 THEN <<>>
    ELSE SelectSeq(list, LAMBDA f : C8_Rank(f) = r) \o C8_ByRank(list, r + 1)

\* C8: evaluate_all returns the findings in non-decreasing rank
\* CRITICAL < HIGH < MEDIUM < LOW < NORMAL < NOT_FOUND, and findings of equal
\* rank keep the order of their records in the fused table.
C8_SortedStable ==
    call[1] = "evaluate_all" =>
        /\ \A i, j \in 1..Len(results) :
               i < j => C8_Rank(results[i]) <= C8_Rank(results[j])
        /\ results = C8_ByRank(Evaluations(df), 1)

C8_Witness ==
    /\ call[1] = "evaluate_all"
    /\ Len(results) = 3
    /\ results # Evaluations(df)
    /\ \E i \in 1..2 :
           /\ results[i].priority = results[i + 1].priority
           /\ results[i].planning_area # results[i + 1].planning_area

\* C9: evaluate_area with a name that is not in the fused table returns the
\* NOT_FOUND ('N/A') finding with trigger false and raises nothing.
C9_NotFound ==
    (call[1] = "evaluate_area" /\ RowsNamed(df, call[2]) = <<>>) =>
        /\ raised = "none"
        /\ finding.priority = "N/A"
        /\ finding.trigger = FALSE

\* C9, second half: the call leaves the fused table as it was.
C9_TableUnchanged == [][\A name \in LookupNames : EvaluateArea(name) => df' = df]_vars

\* the findings the last call returned
C24_Returned ==
    IF call[1] = "evaluate_all" THEN Range(results)
    ELSE IF call[1] = "evaluate_area" /\ raised = "none" THEN {finding}
    ELSE {}

\* C24: in the measurement branch the conditions of rules 4 and 5 each imply
\* the condition of rule 2, so neither is ever the first match: a record with
\* a present temperature gets CRITICAL, HIGH or NORMAL, never MEDIUM.
C24_MediumShadowed ==
    /\ \A f \in C24_Returned :
           f.data_source = "temperature" => f.priority \in {"CRITICAL", "HIGH", "NORMAL"}
    /\ (Evaluated /\ notna(LookedUp.avg_temperature)) =>
           LET t == LookedUp.avg_temperature[1]
               g == LookedUp.green_ratio[1]
               d == LookedUp.density_type
               rule2 == t >= 295 /\ g < 20
               rule4 == t >= 295 /\ d = "Commercial" /\ g < 10
               rule5 == t >= 295 /\ d = "Residential" /\ g < 20
           IN  (rule4 \/ rule5) => (rule2 /\ finding.priority \in {"CRITICAL", "HIGH"})

\* a record that satisfies rule 4 and stops at rule 2
C24_Witness ==
    /\ Evaluated
    /\ LookedUp.avg_temperature = Num(295)
    /\ LookedUp.green_ratio = Num(5)
    /\ LookedUp.density_type = "Commercial"
    /\ finding.priority = "HIGH"

\* C25: trigger is true exactly when the priority is CRITICAL, HIGH, MEDIUM or
\* LOW; a NORMAL or NOT_FOUND ('N/A') finding is never triggered; a finding of
\* the inference branch is never CRITICAL or HIGH.
C25_TriggerIffPriority ==
    \A f \in C24_Returned :
        /\ f.priority \in {"CRITICAL", "HIGH", "MEDIUM", "LOW", "NORMAL", "N/A"}
        /\ f.trigger <=> f.priority \in {"CRITICAL", "HIGH", "MEDIUM", "LOW"}
        /\ f.priority \in {"NORMAL", "N/A"} => ~f.trigger
        /\ f.data_source = "context_inference" => f.priority \notin {"CRITICAL", "HIGH"}

\* one call returning a triggered LOW inference, a NORMAL inference and a
\* triggered measurement
C25_Witness ==
    /\ call[1] = "evaluate_all"
    /\ \E f \in Range(results) :
           f.data_source = "context_inference" /\ f.priority = "LOW" /\ f.trigger
    /\ \E f \in Range(results) :
           f.data_source = "context_inference" /\ f.priority = "NORMAL" /\ ~f.trigger
    /\ \E f \in Range(results) :
           f.data_source = "temperature" /\ f.priority = "CRITICAL" /\ f.trigger

\* C26: evaluate_all returns exactly one finding per record of the table, each
\* made from that record's own values, also when two records carry the same
\* region name.
C26_OneFindingPerRecord ==
    call[1] = "evaluate_all" =>
        /\ Len(results) = Len(df.rows)
        /\ \A r \in Range(df.rows) :
               Cardinality({i \in 1..Len(df.rows) : df.rows[i] = r})
                   = Cardinality({j \in 1..Len(results) :
                                     /\ results[j].planning_area = r.planning_area
                                     /\ results[j].avg_temperature = r.avg_temperature
                                     /\ results[j].green_ratio = r.green_ratio
                                     /\ results[j].density_type = r.density_type})

C27_Severity(p) ==
    CASE p = "CRITICAL" -> 4 [] p = "HIGH" -> 3 [] p = "MEDIUM" -> 2
      [] p = "LOW" -> 1 [] OTHER -> 0

C27_FindingOf(name) == CHOOSE f \in Range(results) : f.planning_area = name

\* C27: for a fixed density type the measurement branch is monotone: a higher
\* temperature at the same green ratio, or a lower green ratio at the same
\* temperature, never gives a less severe priority; a record whose present
\* temperature is below TEMP_HIGH is NORMAL and not triggered.
C27_Monotone ==
    call[1] = "evaluate_all" =>
        LET a == df.rows[1]
            b == df.rows[2]
            hotter == a.avg_temperature[1] <= b.avg_temperature[1]
                        /\ a.green_ratio = b.green_ratio
            barer == a.avg_temperature = b.avg_temperature
                        /\ a.green_ratio[1] >= b.green_ratio[1]
        IN  /\ (hotter \/ barer) =>
                   C27_Severity(C27_FindingOf("A").priority)
                       <= C27_Severity(C27_FindingOf("B").priority)
            /\ \A f \in Range(results) :
                   f.avg_temperature[1] < TEMP_HIGH =>
                       (f.priority = "NORMAL" /\ ~f.trigger)

\* the same bare record once just below and once at TEMP_HIGH
C27_Witness ==
    /\ call[1] = "evaluate_all"
    /\ df.rows[1].avg_temperature = Num(294)
    /\ df.rows[2].avg_temperature = Num(295)
    /\ df.rows[1].green_ratio = Num(5)
    /\ df.rows[2].green_ratio = Num(5)
    /\ C27_FindingOf("A").priority = "NORMAL"
    /\ C27_FindingOf("B").priority = "HIGH"

RECURSIVE C21_Filter(_)
C21_Filter(list) ==
    IF list = <<>> THEN <<>>
    ELSE (IF Head(list).trigger THEN <<Head(list)>> ELSE <<>>) \o C21_Filter(Tail(list))

\* C21: get_triggered_areas returns exactly the findings of evaluate_all whose
\* trigger is true, in the order evaluate_all gives them, and no finding
\* whose trigger is false.
C21_TriggeredOnly ==
    call[1] = "get_triggered_areas" =>
        LET all == evaluate_all(df)
            kept == C21_Filter(all)
            rows == triggered_areas.rows
        IN  /\ Len(rows) = Cardinality({i \in 1..Len(all) : all[i].trigger})
            /\ Len(rows) = Len(kept)
            /\ \A i \in 1..Len(rows) :
                   /\ kept[i].trigger
                   /\ rows[i].planning_area = kept[i].planning_area
                   /\ rows[i].priority = kept[i].priority
                   /\ rows[i].temperature = kept[i].avg_temperature
                   /\ rows[i].green_ratio = kept[i].green_ratio
                   /\ rows[i].density_type = kept[i].density_type
                   /\ rows[i].data_source = kept[i].data_source

\* three records of which two are triggered
C21_Witness ==
    /\ call[1] = "get_triggered_areas"
    /\ Len(df.rows) = 3
    /\ Len(triggered_areas.rows) = 2
    /\ triggered_areas.rows[1].priority # triggered_areas.rows[2].priority
    /\ triggered_areas.rows[1].planning_area # triggered_areas.rows[2].planning_area

---------------------------------------------------------------------------
(* Actions of one OneMapClient instance and of the endpoint behind it *)

\* answer is what the endpoint returns if this call asks it
LoadPlanningAreas(c, answer) ==
    LET r == load_planning_areas(planning_areas[c], answer)
    IN  /\ fetches[c] + r.fetched <= MaxFetches
        /\ call' = <<"load_planning_areas", c, r.fetched>>
        /\ planning_areas' = [planning_areas EXCEPT ![c] = r.areas]
        /\ fetches' = [fetches EXCEPT ![c] = @ + r.fetched]
        /\ loads' = [loads EXCEPT ![c] = @ + r.loaded]
        /\ raised' = r.raised
        /\ area' = NoArea
        /\ UNCHANGED <<df, fusionVars, engineVars, stepVars>>

GetPlanningArea(c, cell, answer) ==
    LET r == get_planning_area(planning_areas[c], answer, cell)
    IN  /\ fetches[c] + r.fetched <= MaxFetches
        /\ call' = <<"get_planning_area", cell, r.fetched>>
        /\ planning_areas' = [planning_areas EXCEPT ![c] = r.areas]
        /\ fetches' = [fetches EXCEPT ![c] = @ + r.fetched]
        /\ loads' = [loads EXCEPT ![c] = @ + r.loaded]
        /\ raised' = r.raised
        /\ area' = r.area
        /\ UNCHANGED <<df, fusionVars, engineVars, stepVars>>

InitIndex ==
    /\ InitIdle
    /\ df = EmptyFrame

\* a client with a filled cache sends no request (lines 33 and 140): one
\* answer stands for all the endpoint could give
Asked(c) == IF planning_areas[c] = <<>> THEN Answers ELSE {HttpError}

NextIndex ==
    \/ \E answer \in Asked("dashboard") : LoadPlanningAreas("dashboard", answer)
    \/ \E cell \in Cells, answer \in Asked("dashboard") :
           GetPlanningArea("dashboard", cell, answer)

SpecIndex == InitIndex /\ [][NextIndex]_vars

---------------------------------------------------------------------------
(* Claims about the region index, checked under SpecIndex *)

cached == planning_areas["dashboard"]

\* C3: get_planning_area returns the name of the first cached polygon, in load
\* order, that contains the point (the first-loaded of two overlapping
\* polygons, the only one when exactly one contains it) and None when no
\* polygon contains it; a miss raises nothing: the only failure of the call is
\* the failed lazy fetch on an empty cache.
C3_FirstMatch ==
    call[1] = "get_planning_area" =>
        LET containing == {i \in 1..Len(cached) : call[2] \in cached[i].geometry}
        IN  /\ raised = "none" =>
                IF containing = {} THEN area = NoArea
                ELSE area = cached[CHOOSE i \in containing :
                                       \A j \in containing : i <= j].name
            /\ raised # "none" =>
                /\ raised \in {"RequestException", "AttributeError"}
                /\ cached = <<>> /\ call[3] = 1

C3_Witness ==
    /\ call[1] = "get_planning_area" /\ call[2] = 2
    /\ Len(cached) = 2
    /\ cached[1].name = "A" /\ 2 \in cached[1].geometry
    /\ cached[2].name = "B" /\ 2 \in cached[2].geometry
    /\ area = "A"

\* C10: load_planning_areas on a client whose cache is non-empty is a no-op:
\* no request is made and the cached polygons and their order stay as they
\* were, whatever the endpoint would answer now.
C10_LoadIsNoOp ==
    [][(cached # <<>> /\ call'[1] = "load_planning_areas") =>
           \A answer \in Answers :
               LoadPlanningAreas("dashboard", answer) =>
                   (planning_areas' = planning_areas /\ fetches' = fetches)]_vars

\* a load was the last call, on a filled cache, and it sent no request
C10_Witness ==
    /\ call = <<"load_planning_areas", "dashboard", 0>>
    /\ raised = "none"
    /\ Len(cached) = 2
    /\ fetches["dashboard"] = 1

---------------------------------------------------------------------------
(* Concurrent requests of /map_content on the module-level client: the steps *)
(* of one request between which another thread can run                      *)

\* what the endpoint may answer while the requests are served: a failure, or
\* a list that parses into at least one polygon
SharedAnswers ==
    {HttpError, Answer(<<ItemA>>), Answer(<<ItemB>>), Answer(<<ItemA, ItemB>>)}

\* map_content line 121: if not onemap_client.planning_areas
Enter(c) ==
    /\ callers[c].at = "arrived"
    /\ callers' = [callers EXCEPT ![c].at =
                       IF cached = <<>> THEN "called" ELSE "done"]
    /\ call' = <<"map_content", c, 0>>
    /\ raised' = "none"
    /\ UNCHANGED <<indexVars, df, fusionVars, engineVars, counts, build>>

\* load_planning_areas line 33: if self.planning_areas: return
Guard(c) ==
    /\ callers[c].at = "called"
    /\ callers' = [callers EXCEPT ![c].at =
                       IF cached # <<>> THEN "done" ELSE "requesting"]
    /\ call' = <<"load_planning_areas", c, 0>>
    /\ raised' = "none"
    /\ UNCHANGED <<indexVars, df, fusionVars, engineVars, counts, build>>

\* lines 42-61: the request and the loop that fills the local parsed_areas
Request(c, answer) ==
    LET r == Fetch(<<>>, answer)
    IN  /\ callers[c].at = "requesting"
        /\ fetches' = [fetches EXCEPT !["dashboard"] = @ + 1]
        /\ callers' = [callers EXCEPT ![c] =
                           IF r.raised = "none"
                           THEN [at |-> "parsed", parsed_areas |-> r.areas,
                                 loaded |-> TRUE]
                           ELSE [@ EXCEPT !.at = "failed"]]
        /\ call' = <<"load_planning_areas", c, 1>>
        /\ raised' = r.raised
        /\ UNCHANGED <<planning_areas, loads, area, df, fusionVars, engineVars, counts, build>>

\* line 63: self.planning_areas = parsed_areas
Assign(c) ==
    /\ callers[c].at = "parsed"
    /\ planning_areas' = [planning_areas EXCEPT !["dashboard"] = callers[c].parsed_areas]
    /\ loads' = [loads EXCEPT !["dashboard"] = @ + 1]
    /\ callers' = [callers EXCEPT ![c].at = "done"]
    /\ call' = <<"load_planning_areas", c, 0>>
    /\ raised' = "none"
    /\ UNCHANGED <<fetches, area, df, fusionVars, engineVars, counts, build>>

InitShared ==
    /\ InitIdle
    /\ df = EmptyFrame

NextShared ==
    \/ \E c \in Callers : Enter(c)
    \/ \E c \in Callers : Guard(c)
    \/ \E c \in Callers, answer \in SharedAnswers : Request(c, answer)
    \/ \E c \in Callers : Assign(c)

SpecShared == InitShared /\ [][NextShared]_vars

\* C13: when several concurrent callers make the first access to the shared
\* client while its cache is empty, exactly one of them fetches and parses
\* and the others wait for or reuse its result: in no interleaving two
\* callers load, and the cache is not assigned twice.
C13_SingleInitialLoad ==
    /\ Cardinality({c \in Callers : callers[c].loaded}) <= 1
    /\ loads["dashboard"] <= 1

\* C11: on one client, over any sequence of load_planning_areas and
\* get_planning_area calls, the polygon set is fetched and parsed at most
\* once and never refreshed afterwards, also when the first load produced
\* zero polygons (an empty answer, or every polygon malformed).
C11_LoadedAtMostOnce == loads["dashboard"] <= 1

C17_WellFormed(data) ==
    LET good == SelectSeq(data, LAMBDA item : item.object /\ item.valid)
    IN  [i \in 1..Len(good) |->
            [name |-> IF good[i].pln_area_n = NoKey THEN "UNKNOWN"
                      ELSE good[i].pln_area_n,
             geometry |-> good[i].cells]]

\* C17: a load that fetches skips every item that fails to parse and goes on:
\* it does not abort because of a malformed item, and afterwards the cache
\* holds exactly the well-formed polygons of the answer, in their order.
C17_MalformedSkipped ==
    [][\A answer \in Answers :
           (/\ LoadPlanningAreas("dashboard", answer)
            /\ cached = <<>>
            /\ answer.status = "ok") =>
               /\ raised' = "none"
               /\ planning_areas'["dashboard"] = C17_WellFormed(answer.data)]_vars

---------------------------------------------------------------------------
(* Claims about theme counting and fusion, checked under SpecFusion *)

NamesOf(rows) == {rows[i].planning_area : i \in 1..Len(rows)}
Occurrences(rows, name) == Len(SelectSeq(rows, LAMBDA r : r.planning_area = name))
Profiled == pc \in {"profiled", "done"}

C18_Region(areas, p) == FirstContaining(areas, p.cell)
C18_Resolved(points, areas) ==
    SelectSeq(points, LAMBDA p : C18_Region(areas, p) # NoArea)
C18_Group(points, areas, name) ==
    SelectSeq(points, LAMBDA p : C18_Region(areas, p) = name)

\* C18: get_aggregated_data drops every point that resolves to no area and
\* returns exactly one record per area that received a point; in each record
\* station_count is the number of points resolved to the area (the counts add
\* up to the number of resolved points), max_temp the largest of their
\* values and stations their names in input order.
C18_OneStatPerRegion ==
    [][\A points \in PointLists, answer \in FusionAnswers :
           (Aggregate(points, answer) /\ raised' = "none") =>
               LET areas == planning_areas'["agg"]
                   resolved == C18_Resolved(points, areas)
                   rows == temp_df'.rows
               IN  /\ NamesOf(rows) = {C18_Region(areas, resolved[i]) : i \in 1..Len(resolved)}
                   /\ \A n \in NamesOf(rows) : Occurrences(rows, n) = 1
                   /\ Sum([i \in 1..Len(rows) |-> rows[i].station_count]) = Len(resolved)
                   /\ \A i \in 1..Len(rows) :
                          LET group == C18_Group(points, areas, rows[i].planning_area)
                          IN  /\ rows[i].station_count = Len(group)
                              /\ rows[i].max_temp =
                                     Max({group[k].value : k \in 1..Len(group)})
                              /\ rows[i].stations =
                                     [k \in 1..Len(group) |-> group[k].name]]_vars

C19_FirstSeen(points, areas, name) ==
    CHOOSE i \in 1..Len(points) :
        /\ C18_Region(areas, points[i]) = name
        /\ \A j \in 1..(i - 1) : C18_Region(areas, points[j]) # name

\* C19: the records returned by get_aggregated_data are in non-increasing
\* max_temp, and two areas with the same max_temp are in the order in which
\* they were first met in the input points.
C19_SortedByMaxStable ==
    [][\A points \in PointLists, answer \in FusionAnswers :
           (Aggregate(points, answer) /\ raised' = "none") =>
               LET areas == planning_areas'["agg"]
                   rows == temp_df'.rows
               IN  \A i, j \in 1..Len(rows) :
                       i < j =>
                           /\ rows[i].max_temp >= rows[j].max_temp
                           /\ rows[i].max_temp = rows[j].max_temp =>
                                  C19_FirstSeen(points, areas, rows[i].planning_area)
                                  < C19_FirstSeen(points, areas, rows[j].planning_area)]_vars

RECURSIVE C20_Insert(_, _)
C20_Insert(sorted, x) ==
    IF sorted = <<>> THEN <<x>>
    ELSE IF x.avg_temperature[1] > Head(sorted).avg_temperature[1]
         THEN <<x>> \o sorted
         ELSE <<Head(sorted)>> \o C20_Insert(Tail(sorted), x)

RECURSIVE C20_Stable(_)
C20_Stable(rows) ==
    IF rows = <<>> THEN <<>>
    ELSE C20_Insert(C20_Stable(SubSeq(rows, 1, Len(rows) - 1)), rows[Len(rows)])

\* C20: the fused table is sorted by avg_temperature descending, every record
\* without a value after every record with one; records with the same value,
\* and the records without a value, keep the order the join gave them.
C20_SortedByTemperatureStable ==
    pc = "done" =>
        LET joined == Unified(temp_df, context_df).rows
        IN  df.rows =
                C20_Stable(SelectSeq(joined, LAMBDA r : notna(r.avg_temperature)))
                \o SelectSeq(joined, LAMBDA r : ~notna(r.avg_temperature))

\* C12: within one run of get_unified_dataset the aggregator and the enricher
\* resolve against one and the same cached polygon set: the set is loaded
\* once for the run, not once per stage, so the two stages cannot end up with
\* different sets when the endpoint's answer changes in between.
C12_OneRegionSetPerRun ==
    pc \in {"profiled", "done"} =>
        /\ loads["agg"] + loads["ctx"] <= 1
        /\ loads["agg"] >= 1 => planning_areas["agg"] = planning_areas["ctx"]

\* C4: the frame of get_context_features holds exactly one record per distinct
\* region name of the client's cached polygons: a region without theme items
\* has its record, and no name has two records, also when two cached polygons
\* carry the same name.
C4_OneRecordPerName ==
    Profiled =>
        /\ NamesOf(context_df.rows) =
               {planning_areas["ctx"][i].name : i \in 1..Len(planning_areas["ctx"])}
        /\ \A n \in NamesOf(context_df.rows) : Occurrences(context_df.rows, n) = 1

\* C5: the fused table is the full outer join of the aggregated frame and the
\* context frame on the region name: every name of either input is in exactly
\* one fused record, and no other name is.
C5_FullOuterJoin ==
    pc = "done" =>
        /\ NamesOf(df.rows) = NamesOf(temp_df.rows) \cup NamesOf(context_df.rows)
        /\ \A n \in NamesOf(df.rows) : Occurrences(df.rows, n) = 1

StatOf(name) == CHOOSE st \in Range(temp_df.rows) : st.planning_area = name

\* C6: a fused record of a region that has a RegionStat carries that stat's
\* avg value; a fused record of a region without one carries the missing
\* value, never 0; a measured average of exactly 0.0 is present and is
\* evaluated by the measurement branch, a missing one by the inference
\* branch; with some regions measured and with none.
C6_AbsentIsNotZero ==
    pc = "done" =>
        /\ \A i \in 1..Len(df.rows) :
               IF df.rows[i].planning_area \in NamesOf(temp_df.rows)
               THEN /\ df.rows[i].avg_temperature = StatOf(df.rows[i].planning_area).avg_temp
                    /\ notna(df.rows[i].avg_temperature)
               ELSE df.rows[i].avg_temperature = NaN
        /\ Evaluated =>
               /\ LookedUp.avg_temperature = Num(0) => finding.data_source = "temperature"
               /\ LookedUp.avg_temperature = NaN => finding.data_source = "context_inference"

\* a run in which A was measured at 0.0 and B was not measured, after
\* evaluate_area("A")
C6_Witness ==
    /\ pc = "done"
    /\ Evaluated /\ call[2] = "A"
    /\ LookedUp.avg_temperature = Num(0)
    /\ finding.data_source = "temperature"
    /\ \E i \in 1..Len(df.rows) :
           df.rows[i].planning_area = "B" /\ df.rows[i].avg_temperature = NaN

\* C7: a region that is in the aggregated frame and not in the context frame
\* is fused with green_ratio 0.0 and density_type Unknown.
C7_DefaultContext ==
    pc = "done" =>
        \A i \in 1..Len(df.rows) :
            (/\ df.rows[i].planning_area \in NamesOf(temp_df.rows)
             /\ df.rows[i].planning_area \notin NamesOf(context_df.rows)) =>
                /\ df.rows[i].green_ratio = Num(0)
                /\ df.rows[i].density_type = "Unknown/Low Density"

C22_Known(c) == {planning_areas[c][i].name : i \in 1..Len(planning_areas[c])}

\* C22: a run of get_unified_dataset ends with an empty fused table exactly
\* when no polygon is known to the run; with polygons known, no aggregated
\* record and no theme item counted, the run does not fail and the fused table
\* has one record per known region, each with a missing avg_temperature,
\* green_ratio 0 and density Unknown.
C22_EmptyOnlyWithoutRegions ==
    pc = "done" =>
        /\ df.rows = <<>> <=> (C22_Known("agg") = {} /\ C22_Known("ctx") = {})
        /\ (/\ C22_Known("ctx") # {}
            /\ temp_df.rows = <<>>
            /\ \A i \in 1..Len(context_df.rows) :
                   /\ context_df.rows[i].green_count = 0
                   /\ context_df.rows[i].comm_count = 0
                   /\ context_df.rows[i].res_count = 0) =>
               /\ NamesOf(df.rows) = C22_Known("ctx")
               /\ \A n \in C22_Known("ctx") : Occurrences(df.rows, n) = 1
               /\ \A i \in 1..Len(df.rows) :
                      /\ df.rows[i].avg_temperature = NaN
                      /\ df.rows[i].green_ratio = Num(0)
                      /\ df.rows[i].density_type = "Unknown/Low Density"

---------------------------------------------------------------------------
(* ContextEnricher on a client that has loaded A and B, in either order:    *)
(* _fetch_and_map on a list of theme items (SpecThemes), and the frame      *)
(* get_context_features builds from the three count dicts (SpecContext)     *)

MaxCount == 7
MaxGreen == 8

\* the LatLng of a theme item: a point in A, in A and B, in B, outside; no or
\* an empty LatLng; a string without a comma; two parts that are no numbers;
\* three parts
ContextLatLngs ==
    {LatLng("ok", c) : c \in Cells}
    \cup {LatLng(k, 0) : k \in {"missing", "nocomma", "nonnumeric", "toomany"}}

ItemLists == SeqsUpTo(ContextLatLngs, MaxItems)

CountDict(a, b) == [n \in Range(NameOrder) |-> IF n = "A" THEN a ELSE IF n = "B" THEN b ELSE 0]

FetchAndMap(items) ==
    LET r == _fetch_and_map(items, planning_areas["ctx"])
    IN  /\ call' = <<"_fetch_and_map", items>>
        /\ raised' = r.raised
        /\ counts' = IF r.raised = "none" THEN r.counts ELSE counts
        /\ UNCHANGED <<indexVars, df, fusionVars, engineVars, callers, build>>

\* get_context_features from line 66 on, given what _fetch_and_map returned;
\* a run calls it once, on the enricher it has just built
BuildFeatures(green_counts, comm_counts, res_counts) ==
    /\ pc = "aggregated"
    /\ pc' = "profiled"
    /\ call' = <<"get_context_features", "-">>
    /\ raised' = "none"
    /\ context_df' = Frame(ContextColumns,
                           ContextRows(planning_areas["ctx"], green_counts,
                                       comm_counts, res_counts))
    /\ UNCHANGED <<indexVars, df, temp_df, engineVars, stepVars>>

InitContext ==
    /\ \E data \in {<<ItemA, ItemB>>, <<ItemB, ItemA>>} :
           planning_areas = [c \in Clients |->
                                IF c = "ctx" THEN ParseAreas(data) ELSE <<>>]
    /\ fetches = [c \in Clients |-> IF c = "ctx" THEN 1 ELSE 0]
    /\ loads = [c \in Clients |-> IF c = "ctx" THEN 1 ELSE 0]
    /\ counts = NoCounts
    /\ callers = [c \in Callers |-> Arrived]
    /\ build = "ascending"
    /\ temp_df = EmptyFrame
    /\ context_df = EmptyFrame
    /\ df = EmptyFrame
    /\ pc = "aggregated"
    /\ call = <<"-", "-">>
    /\ finding = NoFinding
    /\ results = <<>>
    /\ triggered_areas = EmptyFrame
    /\ area = NoArea
    /\ raised = "none"

NextThemes == \E items \in ItemLists : FetchAndMap(items)

SpecThemes == InitContext /\ [][NextThemes]_vars

NextContext ==
    \E ga, gb \in 0..MaxGreen, c, r \in 0..MaxCount :
        BuildFeatures(CountDict(ga, gb), CountDict(c, r), CountDict(r, c))

SpecContext == InitContext /\ [][NextContext]_vars

---------------------------------------------------------------------------
(* Claims about the context features, checked under SpecContext, and about *)
(* the counting of theme items, checked under SpecThemes                   *)

Built == call[1] = "get_context_features" /\ raised = "none"

C14_Class(c, r) ==
    IF c + r = 0 THEN "Unknown/Low Density"
    ELSE IF 5 * c > 3 * (c + r) THEN "Commercial"
    ELSE IF 5 * c < 2 * (c + r) THEN "Residential"
    ELSE "Mixed"

\* C14: density_type is a function of (comm_count, res_count) only: Unknown
\* for a total of 0, else Commercial for a commercial share above 0.6,
\* Residential below 0.4 and Mixed for every other share, the shares 0.4
\* (2, 3) and 0.6 (3, 2) included; (0, 0) is Unknown, (7, 3) Commercial,
\* (3, 7) Residential, (5, 5) Mixed.
C14_DensityClass ==
    Built =>
        \A i \in 1..Len(context_df.rows) :
            LET row == context_df.rows[i]
                c == row.comm_count
                r == row.res_count
            IN  /\ row.density_type = C14_Class(c, r)
                /\ (c = 0 /\ r = 0) => row.density_type = "Unknown/Low Density"
                /\ (c = 7 /\ r = 3) => row.density_type = "Commercial"
                /\ (c = 3 /\ r = 7) => row.density_type = "Residential"
                /\ (c = 5 /\ r = 5) => row.density_type = "Mixed"
                /\ (c = 2 /\ r = 3) => row.density_type = "Mixed"
                /\ (c = 3 /\ r = 2) => row.density_type = "Mixed"

\* A has the share 0.6 exactly and B the share 0.4 exactly
C14_Witness ==
    /\ Built
    /\ Len(context_df.rows) = 2
    /\ \E i, j \in 1..2 :
           /\ context_df.rows[i].comm_count = 3 /\ context_df.rows[i].res_count = 2
           /\ context_df.rows[i].density_type = "Mixed"
           /\ context_df.rows[j].comm_count = 2 /\ context_df.rows[j].res_count = 3
           /\ context_df.rows[j].density_type = "Mixed"

C15_MaxGreen == Max({context_df.rows[i].green_count : i \in 1..Len(context_df.rows)})
C15_Abs(x) == IF x < 0 THEN -x ELSE x

\* C15: every record's green_ratio is its green_count divided by the largest
\* green_count of the frame, rounded to two decimals (the nearest hundredth);
\* with a largest count of zero every ratio is 0; the ratio lies in [0, 1].
C15_GreenRatio ==
    (Built /\ context_df.rows # <<>>) =>
        \A i \in 1..Len(context_df.rows) :
            LET row == context_df.rows[i]
                ratio == row.green_ratio[1]
            IN  /\ notna(row.green_ratio)
                /\ 0 <= ratio /\ ratio <= 100
                /\ IF C15_MaxGreen = 0 THEN ratio = 0
                   ELSE 2 * C15_Abs(100 * row.green_count - ratio * C15_MaxGreen)
                            <= C15_MaxGreen

\* two of three is 0.67
C15_Witness ==
    /\ Built
    /\ Len(context_df.rows) = 2
    /\ context_df.rows[1].green_count = 2 /\ context_df.rows[1].green_ratio = Num(67)
    /\ context_df.rows[2].green_count = 3 /\ context_df.rows[2].green_ratio = Num(100)

C16_Resolved(items, name) ==
    Len(SelectSeq(items, LAMBDA it :
            it.kind = "ok" /\ FirstContaining(planning_areas["ctx"], it.cell) = name))

\* C16: _fetch_and_map skips a theme item whose coordinate pair cannot be
\* parsed (missing, empty, without a comma, not numeric, more than two parts)
\* without raising: the item changes no count and the items after it are
\* still counted.
C16_UnparsableSkipped ==
    call[1] = "_fetch_and_map" =>
        /\ raised = "none"
        /\ \A n \in Range(NameOrder) : counts[n] = C16_Resolved(call[2], n)

====
